---- MODULE Spec2Model ----
(***************************************************************************)
(* usePointerSwipe (src/src/useSwipePointer/usePointerSwipe.ts): a swipe   *)
(* detector over pointerdown / pointermove / pointerup events.             *)
(*                                                                         *)
(* The state is the composable's closure: the options it was built with,   *)
(* the two positions, the two flags and the three event listeners.         *)
(* Three observation variables record what goes in and out: `last` is the  *)
(* event dispatched last (its type, the input filter's verdict on it and   *)
(* the fields its handler read from it; for a stop() call, whether it was  *)
(* called before), `fired` is what that event made the handler call, in    *)
(* call order, and `callbacks`, kept when `logging`,                       *)
(* is the names of the callbacks invoked since the last pointer-down that  *)
(* was accepted while no pointer was down.                                 *)
(* All three callbacks (onSwipeStart, onSwipe, onSwipeEnd) are supplied.   *)
(***************************************************************************)
EXTENDS Integers, Sequences, FiniteSets

VARIABLES options, posStart, posEnd, isSwiping, isPointerDown, listening,
          last, fired, callbacks, logging

vars == <<options, posStart, posEnd, isSwiping, isPointerDown, listening,
          last, fired, callbacks, logging>>

tracker == <<posStart, posEnd, isSwiping, isPointerDown>>

----------------------------------------------------------------------------
(* Bounds of the model *)

\* clientX ranges over 0..MaxCoord and the default threshold
MaxCoord == 1
\* thresholds passed as an option: 1..MaxThreshold
MaxThreshold == 1
\* PointerEvent.buttons ranges over 0..MaxButtons
MaxButtons == 2
\* pointer ids 1..MaxPointers
MaxPointers == 2
\* callbacks recorded per gesture
MaxCallbacks == 4

----------------------------------------------------------------------------
(* Inputs *)

DefaultThreshold == 50

EventTypes == {"pointerdown", "pointermove", "pointerup"}

\* the pointer is on the lines y = 0 and y = DefaultThreshold, at x in 0..MaxCoord
\* or at x = DefaultThreshold (a default threshold away from 0 and one less than
\* it away from 1), or at the one point (DefaultThreshold, 1) off those lines
XCoords == (0..MaxCoord) \cup {DefaultThreshold}

YCoords == {0, DefaultThreshold}

Position == [x : XCoords, y : YCoords] \cup {[x |-> DefaultThreshold, y |-> 1]}

PointerType == {"mouse", "touch"}

PointerEvent ==
    {[pointerType |-> t, buttons |-> b, pointerId |-> i, clientX |-> p.x, clientY |-> p.y] :
        t \in PointerType, b \in 0..MaxButtons, i \in 1..MaxPointers, p \in Position}

\* an optional option is <<>> when absent and <<v>> when given
Options == [threshold : {<<>>} \cup {<<t>> : t \in 1..MaxThreshold},
            pointerTypes : {<<>>, <<{"touch"}>>}]

----------------------------------------------------------------------------
(* Derived values *)

abs(n) == IF n < 0 THEN -n ELSE n

max(a, b) == IF a >= b THEN a ELSE b

threshold == IF options.threshold = <<>> THEN DefaultThreshold ELSE options.threshold[1]

distanceX == posStart.x - posEnd.x

distanceY == posStart.y - posEnd.y

isThresholdExceededStrict == max(abs(distanceX), abs(distanceY)) > threshold

isThresholdExceeded == max(abs(distanceX), abs(distanceY)) >= threshold

directionHorizontalTies ==
    IF ~isThresholdExceeded THEN "none"
    ELSE IF abs(distanceX) >= abs(distanceY)
         THEN (IF distanceX > 0 THEN "left" ELSE "right")
         ELSE (IF distanceY > 0 THEN "up" ELSE "down")

directionSignSwapped ==
    IF ~isThresholdExceeded THEN "none"
    ELSE IF abs(distanceX) > abs(distanceY)
         THEN (IF distanceX > 0 THEN "right" ELSE "left")
         ELSE (IF distanceY > 0 THEN "up" ELSE "down")

direction ==
    IF ~isThresholdExceeded THEN "none"
    ELSE IF abs(distanceX) > abs(distanceY)
         THEN (IF distanceX > 0 THEN "left" ELSE "right")
         ELSE (IF distanceY > 0 THEN "up" ELSE "down")

eventIsAllowedPrimaryOnly(e) ==
    LET isPrimaryButton == e.buttons = 1
    IN  IF options.pointerTypes # <<>>
        THEN e.pointerType \in options.pointerTypes[1]
        ELSE isPrimaryButton

eventIsAllowed(e) ==
    LET isReleasingButton == e.buttons = 0
        isPrimaryButton == e.buttons = 1
    IN  IF options.pointerTypes # <<>>
        THEN e.pointerType \in options.pointerTypes[1]
        ELSE (isReleasingButton \/ isPrimaryButton)

----------------------------------------------------------------------------
(* What a handler does to the outside, in call order *)

\* a call, with the pointer id it is given (0: none) and the direction and
\* isSwiping that can be read while it runs
Call(op, id, dir, swiping) ==
    [op |-> op, pointerId |-> id, direction |-> dir, isSwiping |-> swiping]

Names(calls) == [i \in 1..Len(calls) |-> calls[i].op]

IsCallback(c) == c.op \in {"onSwipeStart", "onSwipe", "onSwipeEnd"}

CallbackNames(calls) == Names(SelectSeq(calls, IsCallback))

\* the handler's calls are recorded; a gesture's record holds MaxCallbacks names
Record(calls, fresh) ==
    /\ fired' = calls
    /\ logging' = logging
    /\ callbacks' = IF logging
                    THEN (IF fresh THEN <<>> ELSE callbacks) \o CallbackNames(calls)
                    ELSE callbacks
    /\ Len(callbacks') <= MaxCallbacks

Pos(e) == [x |-> e.clientX, y |-> e.clientY]

NoPos == [x |-> -1, y |-> -1]

\* the event dispatched: its type, whether the filter allows it, and the
\* pointer id and the coordinates when the handler reads them (else 0, NoPos)
Seen(type, e, readsId, readsPos) ==
    last' = [type |-> type, allowed |-> eventIsAllowed(e),
             pointerId |-> IF readsId THEN e.pointerId ELSE 0,
             pos |-> IF readsPos THEN Pos(e) ELSE NoPos, again |-> FALSE]

----------------------------------------------------------------------------
(* The composable *)

updatePosStart(x, y) == posStart' = [x |-> x, y |-> y]

updatePosEndXOnly(x, y) == posEnd' = [x |-> x, y |-> posEnd.y]

updatePosEnd(x, y) == posEnd' = [x |-> x, y |-> y]

Start ==
    /\ posStart = [x |-> 0, y |-> 0]
    /\ posEnd = [x |-> 0, y |-> 0]
    /\ isSwiping = FALSE
    /\ isPointerDown = FALSE
    /\ listening = [t \in EventTypes |-> TRUE]
    /\ last = [type |-> "none", allowed |-> FALSE, pointerId |-> 0, pos |-> NoPos,
               again |-> FALSE]
    /\ fired = <<>>
    /\ callbacks = <<>>

Init == options \in Options /\ Start /\ logging = FALSE

InitLog == options \in Options /\ Start /\ logging = TRUE

\* an event no handler takes, or one its handler returns from at once
Ignored ==
    /\ Record(<<>>, FALSE)
    /\ UNCHANGED <<options, tracker, listening>>

OnPointerDownCaptureAfter(e) ==
    IF ~eventIsAllowed(e) THEN Ignored
    ELSE /\ UNCHANGED <<options, isSwiping, listening>>
         /\ isPointerDown' = TRUE
         /\ updatePosStart(e.clientX, e.clientY)
         /\ updatePosEnd(e.clientX, e.clientY)
         /\ Record(<<Call("onSwipeStart", 0, direction', isSwiping),
                     Call("setPointerCapture", e.pointerId, direction', isSwiping)>>,
                   ~isPointerDown)

OnPointerDown(e) ==
    IF ~eventIsAllowed(e) THEN Ignored
    ELSE /\ UNCHANGED <<options, isSwiping, listening>>
         /\ isPointerDown' = TRUE
         /\ updatePosStart(e.clientX, e.clientY)
         /\ updatePosEnd(e.clientX, e.clientY)
         /\ Record(<<Call("setPointerCapture", e.pointerId, direction', isSwiping),
                     Call("onSwipeStart", 0, direction', isSwiping)>>,
                   ~isPointerDown)

OnPointerMoveNoHysteresis(e) ==
    IF ~eventIsAllowed(e) THEN Ignored
    ELSE IF ~isPointerDown THEN Ignored
    ELSE /\ UNCHANGED <<options, posStart, isPointerDown, listening>>
         /\ updatePosEnd(e.clientX, e.clientY)
         /\ isSwiping' = isThresholdExceeded'
         /\ Record(IF isSwiping'
                   THEN <<Call("onSwipe", 0, direction', isSwiping')>>
                   ELSE <<>>, FALSE)

OnPointerMoveStaleDirection(e) ==
    IF ~eventIsAllowed(e) THEN Ignored
    ELSE IF ~isPointerDown THEN Ignored
    ELSE /\ UNCHANGED <<options, posStart, isPointerDown, listening>>
         /\ updatePosEnd(e.clientX, e.clientY)
         /\ isSwiping' = (isSwiping \/ isThresholdExceeded')
         /\ Record(IF isSwiping'
                   THEN <<Call("onSwipe", 0, direction, isSwiping')>>
                   ELSE <<>>, FALSE)

OnPointerMoveUngated(e) ==
    IF ~eventIsAllowed(e) THEN Ignored
    ELSE /\ UNCHANGED <<options, posStart, isPointerDown, listening>>
         /\ updatePosEnd(e.clientX, e.clientY)
         /\ isSwiping' = (isSwiping \/ isThresholdExceeded')
         /\ Record(IF isSwiping'
                   THEN <<Call("onSwipe", 0, direction', isSwiping')>>
                   ELSE <<>>, FALSE)

OnPointerMove(e) ==
    IF ~eventIsAllowed(e) THEN Ignored
    ELSE IF ~isPointerDown THEN Ignored
    ELSE /\ UNCHANGED <<options, posStart, isPointerDown, listening>>
         /\ updatePosEnd(e.clientX, e.clientY)
         /\ isSwiping' = (isSwiping \/ isThresholdExceeded')
         /\ Record(IF isSwiping'
                   THEN <<Call("onSwipe", 0, direction', isSwiping')>>
                   ELSE <<>>, FALSE)

OnPointerUpUnfiltered(e) ==
    /\ Record(IF isSwiping
              THEN <<Call("onSwipeEnd", 0, direction, isSwiping)>>
              ELSE <<>>, FALSE)
    /\ isPointerDown' = FALSE
    /\ isSwiping' = FALSE
    /\ UNCHANGED <<options, posStart, posEnd, listening>>

OnPointerUpEndAlways(e) ==
    IF ~eventIsAllowed(e) THEN Ignored
    ELSE /\ Record(<<Call("onSwipeEnd", 0, direction, isSwiping)>>, FALSE)
         /\ isPointerDown' = FALSE
         /\ isSwiping' = FALSE
         /\ UNCHANGED <<options, posStart, posEnd, listening>>

OnPointerUpKeepsSwiping(e) ==
    IF ~eventIsAllowed(e) THEN Ignored
    ELSE /\ Record(IF isSwiping
                   THEN <<Call("onSwipeEnd", 0, direction, isSwiping)>>
                   ELSE <<>>, FALSE)
         /\ isPointerDown' = FALSE
         /\ UNCHANGED <<options, posStart, posEnd, isSwiping, listening>>

OnPointerUp(e) ==
    IF ~eventIsAllowed(e) THEN Ignored
    ELSE /\ Record(IF isSwiping
                   THEN <<Call("onSwipeEnd", 0, direction, isSwiping)>>
                   ELSE <<>>, FALSE)
         /\ isPointerDown' = FALSE
         /\ isSwiping' = FALSE
         /\ UNCHANGED <<options, posStart, posEnd, listening>>

\* useEventListener: the handler runs while its listener is attached
PointerDown(e) ==
    /\ LET taken == listening["pointerdown"] /\ eventIsAllowed(e)
       IN  Seen("pointerdown", e, taken, taken)
    /\ IF listening["pointerdown"] THEN OnPointerDown(e) ELSE Ignored

PointerMove(e) ==
    /\ LET taken == listening["pointermove"] /\ eventIsAllowed(e) /\ isPointerDown
       IN  Seen("pointermove", e, FALSE, taken)
    /\ IF listening["pointermove"] THEN OnPointerMove(e) ELSE Ignored

PointerUp(e) ==
    /\ Seen("pointerup", e, FALSE, FALSE)
    /\ IF listening["pointerup"] THEN OnPointerUp(e) ELSE Ignored

\* the function useEventListener returns removes the listener
StopListener(l, t) == [l EXCEPT ![t] = FALSE]

\* a call of stop(), and whether a listener was detached already
SeenStop ==
    last' = [type |-> "stop", allowed |-> FALSE, pointerId |-> 0, pos |-> NoPos,
             again |-> \E t \in EventTypes : ~listening[t]]

stopKeepsPointerUp ==
    /\ listening' = StopListener(StopListener(listening, "pointerdown"), "pointermove")
    /\ Record(<<>>, FALSE)
    /\ SeenStop
    /\ UNCHANGED <<options, tracker>>

stopResets ==
    /\ listening' = StopListener(StopListener(StopListener(listening,
                        "pointerdown"), "pointermove"), "pointerup")
    /\ Record(<<>>, FALSE)
    /\ SeenStop
    /\ isSwiping' = FALSE /\ isPointerDown' = FALSE
    /\ UNCHANGED <<options, posStart, posEnd>>

stopFirstOnly ==
    /\ listening' = StopListener(listening, "pointerdown")
    /\ Record(<<>>, FALSE)
    /\ SeenStop
    /\ UNCHANGED <<options, tracker>>

stop ==
    /\ listening' = StopListener(StopListener(StopListener(listening,
                        "pointerdown"), "pointermove"), "pointerup")
    /\ Record(<<>>, FALSE)
    /\ SeenStop
    /\ UNCHANGED <<options, tracker>>

Next ==
    \/ \E e \in PointerEvent : PointerDown(e)
    \/ \E e \in PointerEvent : PointerMove(e)
    \/ \E e \in PointerEvent : PointerUp(e)
    \/ stop

Spec == Init /\ [][Next]_vars

SpecLog == InitLog /\ [][Next]_vars

----------------------------------------------------------------------------
(* What the properties below read off a state *)

Fired(op) == \E i \in 1..Len(fired) : fired[i].op = op

\* the last event was of this type, passed the filter and had a listener
Handled(type) == last.type = type /\ last.allowed /\ listening[type]

\* the last event was of this type and the filter rejected it
Rejected(type) == last.type = type /\ ~last.allowed

\* stop() has been called: only stop() detaches a listener
StopCalled == \E t \in EventTypes : ~listening[t]

displacement == max(abs(distanceX), abs(distanceY))

Has(seq, name) == \E i \in 1..Len(seq) : seq[i] = name

\* onSwipeStart, then onSwipe one or more times, then onSwipeEnd
IsSwipeSequence(seq) ==
    /\ Len(seq) >= 3
    /\ seq[1] = "onSwipeStart"
    /\ seq[Len(seq)] = "onSwipeEnd"
    /\ \A i \in 2..(Len(seq) - 1) : seq[i] = "onSwipe"

----------------------------------------------------------------------------
(* C1: a gesture (from a pointer-down accepted while no pointer is down to *)
(* the pointer-up that ends it) in which the threshold is reached fires    *)
(* exactly onSwipeStart, then onSwipe one or more times, then onSwipeEnd,  *)
(* also when a second pointer-down arrives while the gesture is active.    *)
(* Stated of a finished gesture in which onSwipe fired; checked under      *)
(* SpecLog, which keeps the gesture's callbacks.                           *)
C1_SwipeFiresStartSwipesEnd ==
    (~isPointerDown /\ Has(callbacks, "onSwipe")) => IsSwipeSequence(callbacks)

(* C2: a gesture whose displacement stays below the threshold from its     *)
(* pointer-down to its pointer-up fires onSwipeStart on the pointer-down,  *)
(* has isSwiping false and direction 'none' throughout, and fires no       *)
(* onSwipeEnd, whatever came before it.  Step by step: after the accepted  *)
(* pointer-down; after each accepted move that stays below the threshold;  *)
(* at the accepted pointer-up.                                             *)
C2_BelowThresholdNeverSwipes ==
    [][/\ Handled("pointerdown")' =>
            (Fired("onSwipeStart")' /\ ~isSwiping' /\ direction' = "none")
       /\ (Handled("pointermove")' /\ isPointerDown /\ ~isSwiping
              /\ displacement' < threshold) =>
            (~isSwiping' /\ direction' = "none" /\ ~Fired("onSwipeEnd")')
       /\ (Handled("pointerup")' /\ ~isSwiping) => ~Fired("onSwipeEnd")']_vars

(* C3: once stop() has been called no callback is invoked again, whatever  *)
(* events are sent; a gesture in progress gets no onSwipeEnd, neither from *)
(* stop() nor from the later pointer-up.                                   *)
C3_NoCallbackAfterStop ==
    (StopCalled \/ last.type = "stop") => fired = <<>>

\* a swipe was in progress at stop(), and its pointer-up was sent afterwards
C3_Witness ==
    StopCalled /\ isSwiping /\ last.type = "pointerup" /\ last.allowed

(* C4: an event the input filter rejects changes neither posStart, posEnd, *)
(* isSwiping nor isPointerDown, fires no callback and requests no pointer  *)
(* capture, in every state.                                                *)
C4_RejectedEventIsNoOp ==
    [][(last'.type \in EventTypes /\ ~last'.allowed) =>
          (UNCHANGED tracker /\ fired' = <<>>)]_vars

\* a pointer-up was rejected in the middle of a swipe
C4_Witness ==
    Rejected("pointerup") /\ isSwiping /\ isPointerDown /\ ~StopCalled

(* C5: direction is a function of posStart, posEnd and the threshold:      *)
(* 'none' exactly when max(|distanceX|,|distanceY|) < threshold; otherwise *)
(* 'left' / 'right' by the sign of distanceX when |distanceX| is the       *)
(* larger, 'up' / 'down' by the sign of distanceY when |distanceY| is.     *)
C5_DirectionOfDisplacement ==
    LET dx == posStart.x - posEnd.x
        dy == posStart.y - posEnd.y
        m == IF abs(dx) >= abs(dy) THEN abs(dx) ELSE abs(dy)
    IN  /\ (direction = "none") <=> (m < threshold)
        /\ (m >= threshold /\ abs(dx) > abs(dy) /\ dx > 0) => direction = "left"
        /\ (m >= threshold /\ abs(dx) > abs(dy) /\ dx < 0) => direction = "right"
        /\ (m >= threshold /\ abs(dy) > abs(dx) /\ dy > 0) => direction = "up"
        /\ (m >= threshold /\ abs(dy) > abs(dx) /\ dy < 0) => direction = "down"

\* the pointer went left by the default threshold and up by 1
C5_Witness ==
    /\ options.threshold = <<>>
    /\ distanceX = DefaultThreshold /\ distanceY = 1
    /\ direction = "left"

(* C6 as claimed: when |distanceX| = |distanceY| and that is at or above   *)
(* the threshold, the horizontal axis wins (direction is 'left' or         *)
(* 'right').                                                               *)
C6_TieGoesHorizontal ==
    (abs(distanceX) = abs(distanceY) /\ abs(distanceX) >= threshold)
        => direction \in {"left", "right"}

(* C6 as amended: on such a tie the vertical axis wins: direction is 'up'  *)
(* when distanceY > 0 and 'down' otherwise.                                *)
C6_TieGoesVertical ==
    (abs(distanceX) = abs(distanceY) /\ abs(distanceX) >= threshold)
        => direction = (IF distanceY > 0 THEN "up" ELSE "down")

\* a tie at the default threshold
C6_Witness ==
    /\ options.threshold = <<>>
    /\ abs(distanceX) = DefaultThreshold /\ abs(distanceY) = DefaultThreshold

(* C7 as claimed: an accepted pointer-move while a pointer is down that    *)
(* brings the displacement to exactly the threshold (50 when no threshold  *)
(* option is given) makes direction not 'none', isSwiping true and fires   *)
(* onSwipe; one that brings it to threshold - 1 does none of these.        *)
C7_ThresholdInclusive ==
    [][(Handled("pointermove")' /\ isPointerDown) =>
          LET th == IF options.threshold = <<>> THEN 50 ELSE options.threshold[1]
          IN  /\ displacement' = th =>
                    (direction' # "none" /\ isSwiping' /\ Fired("onSwipe")')
              /\ displacement' = th - 1 =>
                    (direction' = "none" /\ ~isSwiping' /\ ~Fired("onSwipe")')]_vars

(* C7 as amended: the move to exactly the threshold does all three; the    *)
(* move to threshold - 1 leaves direction 'none', and leaves isSwiping     *)
(* false and fires no onSwipe when isSwiping was false before the move.    *)
C7_ThresholdInclusiveUnlessSwiping ==
    [][(Handled("pointermove")' /\ isPointerDown) =>
          LET th == IF options.threshold = <<>> THEN 50 ELSE options.threshold[1]
          IN  /\ displacement' = th =>
                    (direction' # "none" /\ isSwiping' /\ Fired("onSwipe")')
              /\ displacement' = th - 1 =>
                    /\ direction' = "none"
                    /\ ~isSwiping => (~isSwiping' /\ ~Fired("onSwipe")')]_vars

\* a move brought the displacement to exactly the default threshold
C7_Witness ==
    /\ Handled("pointermove") /\ options.threshold = <<>>
    /\ displacement = DefaultThreshold
    /\ isSwiping /\ Fired("onSwipe")

C9_StopResets ==
    StopCalled => ~isSwiping

(* C9 as amended: stop() leaves isSwiping, isPointerDown, posStart and     *)
(* posEnd as they were, and nothing changes them afterwards.               *)
C9_StopFreezes ==
    [][(last'.type = "stop" \/ StopCalled) => UNCHANGED tracker]_vars

\* stop() was just called in the middle of a swipe
C9_Witness ==
    last.type = "stop" /\ isSwiping /\ isPointerDown /\ posStart # posEnd

(* C10 as claimed: right after an accepted pointer-down, an accepted       *)
(* pointer-move while a pointer is down and an accepted pointer-up, posEnd *)
(* is the client coordinates of that event (for the pointer-up, stated of  *)
(* one that ends a gesture: whichever event the step is the pointer-up of, *)
(* posEnd is where that event is).                                         *)
C10_PosEndFollowsEveryEvent ==
    [][/\ Handled("pointerdown")' => posEnd' = last'.pos
       /\ (Handled("pointermove")' /\ isPointerDown) => posEnd' = last'.pos
       /\ (Handled("pointerup")' /\ isPointerDown) =>
             \A e \in PointerEvent : PointerUp(e) => posEnd' = Pos(e)]_vars

(* C10 as amended: posEnd is the event's client coordinates right after an *)
(* accepted pointer-down and an accepted pointer-move while a pointer is   *)
(* down; an accepted pointer-up leaves posEnd as it was.                   *)
C10_PosEndFollowsDownAndMove ==
    [][/\ Handled("pointerdown")' => posEnd' = last'.pos
       /\ (Handled("pointermove")' /\ isPointerDown) => posEnd' = last'.pos
       /\ Handled("pointerup")' => posEnd' = posEnd]_vars

\* a swipe ended with an accepted pointer-up
C10_Witness ==
    Handled("pointerup") /\ Fired("onSwipeEnd") /\ posEnd # posStart

(* C11: stop() detaches all three handlers, and calling it again changes   *)
(* nothing: the listeners stay detached, the tracker keeps its state and   *)
(* nothing is called.                                                      *)
C11_StopIdempotent ==
    [][last'.type = "stop" =>
          /\ \A t \in EventTypes : ~listening'[t]
          /\ UNCHANGED tracker /\ fired' = <<>>
          /\ StopCalled => UNCHANGED listening]_vars

\* stop() was called a second time, in the middle of a swipe
C11_Witness ==
    last.type = "stop" /\ last.again /\ isSwiping /\ \A t \in EventTypes : ~listening[t]

(* C12: an accepted pointer-up calls onSwipeEnd exactly once when          *)
(* isSwiping was true before it and not at all otherwise; isSwiping still  *)
(* reads true inside the callback; afterwards isSwiping and isPointerDown  *)
(* are both false.                                                         *)
C12_PointerUpEndsGesture ==
    [][Handled("pointerup")' =>
          /\ isSwiping => (/\ Len(fired') = 1
                           /\ fired'[1].op = "onSwipeEnd"
                           /\ fired'[1].isSwiping)
          /\ ~isSwiping => fired' = <<>>
          /\ ~isSwiping' /\ ~isPointerDown']_vars

\* a pointer-up ended a swipe: onSwipeEnd saw isSwiping true, now it is false
C12_Witness ==
    /\ Handled("pointerup") /\ Len(fired) = 1 /\ fired[1].op = "onSwipeEnd"
    /\ fired[1].isSwiping /\ ~isSwiping /\ ~isPointerDown

(* C13: isSwiping turns true only on an accepted pointer-move, made while  *)
(* a pointer is down, that brings the displacement to the threshold, and   *)
(* every such move of a gesture not yet swiping turns it true; it turns    *)
(* false only on an accepted pointer-up, so later moves below the          *)
(* threshold keep it; every accepted move while isSwiping is true calls    *)
(* onSwipe exactly once, and an accepted move that leaves isSwiping false  *)
(* calls nothing.                                                          *)
C13_Hysteresis ==
    [][/\ (~isSwiping /\ isSwiping') =>
             (Handled("pointermove")' /\ isPointerDown /\ displacement' >= threshold)
       /\ (Handled("pointermove")' /\ isPointerDown /\ ~isSwiping
              /\ displacement' >= threshold) => isSwiping'
       /\ (isSwiping /\ ~isSwiping') => Handled("pointerup")'
       /\ (Handled("pointermove")' /\ isSwiping) =>
             (isSwiping' /\ Len(fired') = 1 /\ fired'[1].op = "onSwipe")
       /\ (Handled("pointermove")' /\ ~isSwiping') => fired' = <<>>]_vars

\* a move of a swiping gesture went back below the threshold and called onSwipe
C13_Witness ==
    /\ Handled("pointermove") /\ isSwiping /\ displacement < threshold
    /\ Len(fired) = 1 /\ fired[1].op = "onSwipe"

(* C14: the direction onSwipeEnd is given, and the direction that can be   *)
(* read inside onSwipe, is the one derived from posStart and posEnd as     *)
(* they are when the callback runs (the pointer-up changes neither), not   *)
(* the one at the moment the threshold was crossed.                        *)
C14_CallbackDirectionIsLive ==
    \A i \in 1..Len(fired) :
        fired[i].op \in {"onSwipe", "onSwipeEnd"} => fired[i].direction = direction

\* onSwipeEnd was given 'up', the pointer having ended straight above its start
C14_Witness ==
    /\ Handled("pointerup") /\ Fired("onSwipeEnd") /\ fired[1].direction = "up"
    /\ distanceX = 0 /\ distanceY = DefaultThreshold

(* C15: isPointerDown is true exactly while a pointer whose pointer-down   *)
(* was accepted has not been released; the release of a different pointer  *)
(* does not clear it.  Stated of the step after an accepted pointer-down   *)
(* of pointer i: whichever event of another pointer the step is the        *)
(* pointer-up of, isPointerDown stays true.                                *)
C15_PointerDownUntilMatchingUp ==
    [][(Handled("pointerdown") /\ isPointerDown /\ last'.type = "pointerup") =>
          \A e \in PointerEvent :
              (e.pointerId # last.pointerId /\ PointerUp(e)) => isPointerDown']_vars

(* C16: only an accepted pointer-down writes posStart; it sets posStart    *)
(* and posEnd to the event's coordinates, so both distances are 0; and     *)
(* within a gesture posStart is set once: no pointer-down is taken while   *)
(* a pointer is down.                                                      *)
C16_PosStartSetOncePerGesture ==
    [][/\ posStart' # posStart => Handled("pointerdown")'
       /\ Handled("pointerdown")' =>
             /\ posStart' = last'.pos /\ posEnd' = last'.pos
             /\ distanceX' = 0 /\ distanceY' = 0
             /\ ~isPointerDown]_vars

(* C17: an accepted pointer-down requests pointer capture for the event's  *)
(* pointer id and then calls onSwipeStart; no other event requests         *)
(* capture.                                                                *)
C17_CaptureThenStart ==
    IF Handled("pointerdown")
    THEN /\ Len(fired) = 2
         /\ fired[1].op = "setPointerCapture" /\ fired[1].pointerId = last.pointerId
         /\ last.pointerId \in 1..MaxPointers
         /\ fired[2].op = "onSwipeStart"
    ELSE ~Fired("setPointerCapture")

\* the second pointer went down and was captured
C17_Witness ==
    Handled("pointerdown") /\ Fired("setPointerCapture") /\ fired[1].pointerId = 2

(* C18: while isPointerDown and isSwiping are both false, a pointer-move   *)
(* or pointer-up, allowed or not, changes neither posStart, posEnd,        *)
(* isSwiping nor isPointerDown and calls nothing.                          *)
C18_IdleIgnoresMoveAndUp ==
    [][(~isPointerDown /\ ~isSwiping /\ last'.type \in {"pointermove", "pointerup"}) =>
          (UNCHANGED tracker /\ fired' = <<>>)]_vars

\* an allowed pointer-move arrived with no pointer down, after an earlier gesture
C18_Witness ==
    Handled("pointermove") /\ ~isPointerDown /\ ~isSwiping /\ posStart # posEnd

(* C19: in every reachable state isSwiping implies isPointerDown.          *)
C19_SwipingImpliesPointerDown ==
    isSwiping => isPointerDown

\* a swipe in progress, with stop() already called and a pointer-up sent after it
C19_Witness ==
    isSwiping /\ isPointerDown /\ StopCalled /\ last.type = "pointerup"

(* C20: the direction onSwipeEnd is given is 'up', 'down', 'left' or       *)
(* 'right', never 'none'.                                                  *)
C20_EndDirectionNotNone ==
    \A i \in 1..Len(fired) :
        fired[i].op = "onSwipeEnd" => fired[i].direction \in {"up", "down", "left", "right"}

====
